---- MODULE Spec2Model ----
(***************************************************************************)
(* Monitor check-in ingestion of sentry:                                   *)
(*   src/src/sentry/api/endpoints/monitor_checkins.py                      *)
(*   MonitorCheckInsEndpoint.post                                          *)
(*                                                                         *)
(* Several workers serve POST requests concurrently.  A request first      *)
(* loads its monitor and project (the in-memory `monitor` and `project`    *)
(* objects of the handler), runs the admission checks (lines 134-151) and  *)
(* then runs the transaction of lines 155-209.  The objects loaded at the  *)
(* start are not refreshed, so the transaction decides on a snapshot while *)
(* its UPDATE statements act on the stored rows.                           *)
(*                                                                         *)
(* Time is counted in minutes.  date_added of a check-in is the clock      *)
(* reading at its INSERT; transactions of different workers commit in any  *)
(* order, so date_added is an input of the transaction step.               *)
(***************************************************************************)
EXTENDS Integers, Sequences, FiniteSets, TLC

\* ------------------------------------------------------------------ bounds
\* concurrent request workers
NumWorkers == 2
\* clock readings
MaxTime == 2
\* MonitorCheckIn rows in the wide scope
MaxCheckIns == 2
\* status changes by monitor management
MaxAdminOps == 1
\* limiter calls counted beyond the quota in one window
MaxOverQuota == 2
\* organization ids the codecov task is run for
NumOrganizations == 2
\* runs of the codecov task
MaxRuns == 3

\* ------------------------------------------------------- program constants
CHECKIN_QUOTA_LIMIT == 5

\* None / SQL NULL of the nullable last_checkin and next_checkin
NULL == -1

Workers == 1..NumWorkers
Monitors == {1, 2}

\* the monitor whose status monitor management changes
ManagedMonitors == {1}

\* the readings of the clock, in minutes
Times == 1..MaxTime

\* sentry.models.MonitorStatus, as far as the handler and the spec name it
MonitorStatus ==
    {"ACTIVE", "DISABLED", "PENDING_DELETION", "DELETION_IN_PROGRESS", "OK", "ERROR"}

\* sentry.models.CheckInStatus values MonitorCheckInValidator lets through
CheckInStatus == {"IN_PROGRESS", "OK", "ERROR"}

\* the environment names of a payload; "" is an absent or empty name
EnvironmentNames == {"", "production", "staging"}

\* request.auth: a full user or a DSN (ProjectKey)
AuthKinds == {"user", "ProjectKey"}

\* the two signals of the handler
SignalNames == {"first_cron_monitor_created", "first_cron_checkin_received"}

\* the input scopes: many different payloads and few check-ins, one payload
\* shape and enough check-ins to exhaust the quota of a monitor, or few
\* payloads and signal receivers that can fail
WideScope ==
    [workers |-> Workers, statuses |-> CheckInStatus, names |-> EnvironmentNames,
     times |-> Times, auths |-> AuthKinds, rows |-> MaxCheckIns,
     undeliverable |-> {}]

QuotaScope ==
    [workers |-> {1}, statuses |-> {"OK"}, names |-> {""},
     times |-> {1}, auths |-> {"user"}, rows |-> CHECKIN_QUOTA_LIMIT,
     undeliverable |-> {}]

NotifyScope ==
    [workers |-> Workers, statuses |-> {"OK", "ERROR"}, names |-> {""},
     times |-> Times, auths |-> {"user"}, rows |-> MaxCheckIns,
     undeliverable |-> SignalNames]

\* one payload shape, for projects with any values of the two flags
FlagsScope ==
    [workers |-> Workers, statuses |-> {"OK"}, names |-> {""},
     times |-> {1}, auths |-> {"user"}, rows |-> MaxCheckIns + 1,
     undeliverable |-> {}]

VARIABLES
    monitors,       \* Monitor rows: id -> [status, last_checkin, next_checkin]
    monitor_envs,   \* MonitorEnvironment rows: <<monitor, environment>> -> row
    environments,   \* Environment rows of the project (their names)
    checkins,       \* MonitorCheckIn rows, in insertion order
    project_flags,  \* Project.flags: has_cron_checkins, has_cron_monitors
    signals,        \* signals sent so far, in order
    ratelimit,      \* the limiter's counters of the current window, by key
    req,            \* per worker: the request it is serving
    response,       \* the response returned by the step just taken, if any
    admin_ops,      \* number of status changes made by monitor management
    scope,          \* the input scope of this behaviour
    organizations,  \* Organization rows by id, NoOrganization where there is none
    integrations,   \* ids of the organizations with a valid Codecov integration
    logged,         \* what the codecov task logged, in order
    task            \* the last run of the codecov task

vars == <<monitors, monitor_envs, environments, checkins, project_flags,
          signals, ratelimit, req, response, admin_ops, scope,
          organizations, integrations, logged, task>>

\* the state of sentry.tasks.auto_enable_codecov
codecov_vars == <<organizations, integrations, logged, task>>

\* the state of the check-in endpoint
checkin_vars == <<monitors, monitor_envs, environments, checkins, project_flags,
                  signals, ratelimit, req, response, admin_ops, scope>>

\* ------------------------------------------------------------- schedules
\* Monitor.config["schedule"]: monitor 1 runs `* * * * *`, monitor 2 runs
\* `*/2 * * * *`
ScheduleStep == [m \in Monitors |-> m]

\* Monitor.get_next_scheduled_checkin: the next instant strictly after t that
\* satisfies the schedule
get_next_scheduled_checkin(m, t) == ((t \div ScheduleStep[m]) + 1) * ScheduleStep[m]

\* ---------------------------------------------------------- rate limiter
\* one key for all monitors
RateLimitKey_shared(m) == <<"monitor-checkins", 1>>

\* f"monitor-checkins:{monitor.id}"
RateLimitKey(m) == <<"monitor-checkins", m>>

\* the keys the limiter can be asked about
RateLimitKeys == {"monitor-checkins"} \X Monitors

\* ratelimits.is_limited: fixed window counter; every call counts, and the
\* call is limited when the count of the window exceeds the limit
is_limited(counts, key, limit) ==
    LET bumped == [counts EXCEPT ![key] = @ + 1]
    IN  [counts |-> bumped, limited |-> bumped[key] > limit]

\* ------------------------------------------------------- row operations
\* the guard left out: every row is updated
Excluded_never(row, date_added) == FALSE

\* .exclude(last_checkin__gt=checkin.date_added): rows with a NULL
\* last_checkin are not excluded
Excluded(row, date_added) ==
    row.last_checkin # NULL /\ row.last_checkin > date_added

\* QuerySet.filter(id=...).exclude(last_checkin__gt=...).update(**params)
GuardedUpdate(row, params, date_added) ==
    IF Excluded(row, date_added)
    THEN row
    ELSE [f \in DOMAIN row |-> IF f \in DOMAIN params THEN params[f] ELSE row[f]]

\* only one of the two deletion statuses tested
IsBeingDeleted_pendingOnly(monitor_status) ==
    monitor_status = "PENDING_DELETION"

\* the condition of line 134
IsBeingDeleted(monitor_status) ==
    monitor_status \in {"PENDING_DELETION", "DELETION_IN_PROGRESS"}

\* the ERROR branch never taken
TakesFailedPath_never(checkin_status, monitor_status) == FALSE

\* the condition of line 190
TakesFailedPath(checkin_status, monitor_status) ==
    checkin_status = "ERROR" /\ monitor_status # "DISABLED"

\* the DISABLED test of line 202 left out
SetsOk_ignoresDisabled(checkin_status, monitor_status) ==
    checkin_status = "OK"

\* the status of the check-in not looked at
SetsOk_anyStatus(checkin_status, monitor_status) ==
    monitor_status # "DISABLED"

\* the condition of line 202
SetsOk(checkin_status, monitor_status) ==
    checkin_status = "OK" /\ monitor_status # "DISABLED"

\* the status left out of the parameters
monitor_params_withoutStatus(m, checkin_status, monitor_status, date_added) ==
    [last_checkin |-> date_added,
     next_checkin |-> get_next_scheduled_checkin(m, date_added)]

\* next_checkin set to the check-in's date instead of the next scheduled one
monitor_params_nextIsDate(m, checkin_status, monitor_status, date_added) ==
    IF SetsOk(checkin_status, monitor_status)
    THEN [last_checkin |-> date_added, next_checkin |-> date_added, status |-> "OK"]
    ELSE [last_checkin |-> date_added, next_checkin |-> date_added]

\* next_checkin left out of the parameters
monitor_params_withoutNext(m, checkin_status, monitor_status, date_added) ==
    IF SetsOk(checkin_status, monitor_status)
    THEN [last_checkin |-> date_added, status |-> "OK"]
    ELSE [last_checkin |-> date_added]

\* monitor_params of lines 198-203
monitor_params(m, checkin_status, monitor_status, date_added) ==
    LET base == [last_checkin |-> date_added,
                 next_checkin |-> get_next_scheduled_checkin(m, date_added)]
    IN  IF SetsOk(checkin_status, monitor_status)
        THEN [last_checkin |-> base.last_checkin,
              next_checkin |-> base.next_checkin,
              status |-> "OK"]
        ELSE base

\* Monitor.mark_failed / MonitorEnvironment.mark_failed(last_checkin=...):
\* a guarded update to ERROR that reports whether it changed the row.  It
\* recomputes next_checkin: test_failing asserts next_checkin ==
\* get_next_scheduled_checkin(checkin.date_added) after an ERROR check-in
mark_failed(row, m, date_added) ==
    LET affected == row.last_checkin = NULL \/ row.last_checkin <= date_added
    IN  [row |-> IF affected
                 THEN [status |-> "ERROR",
                       last_checkin |-> date_added,
                       next_checkin |-> get_next_scheduled_checkin(m, date_added)]
                 ELSE row,
         result |-> affected]

\* another name as the default
environment_name_defaultStaging(name) == IF name = "" THEN "staging" ELSE name

\* environment_name of lines 156-158
environment_name(name) == IF name = "" THEN "production" ELSE name

NoRow == [status |-> "NONE", last_checkin |-> NULL, next_checkin |-> NULL]

EnvKeys == Monitors \X (EnvironmentNames \ {""})

\* the fields serialize(checkin, request.user) returns
SerializedFields == {"id", "status", "duration", "dateCreated"}

Idle == [pc |-> "idle", monitor |-> 0, snap |-> NoRow,
         has_cron_checkins |-> FALSE, has_cron_monitors |-> FALSE]

NoResponse == [code |-> 0, body |-> {}, auth |-> "user", monitor |-> 0]

\* ------------------------------------------------------------------ Init
\* a monitor as the monitor-management flow creates it: no check-in yet and
\* a next_checkin in the past
InitialMonitor == [status |-> "ACTIVE", last_checkin |-> NULL, next_checkin |-> 0]

\* ---------------------------------------------------------------------
\* sentry.tasks.auto_enable_codecov

OrganizationIds == 1..NumOrganizations

\* Organization.objects.get(id=...) finds no row
NoOrganization == [exists |-> FALSE, codecov_access |-> FALSE]

OrganizationRows == {NoOrganization} \cup [exists : {TRUE}, codecov_access : BOOLEAN]

DoesNotExistMessage == "Organization does not exist."

ErrorMessage == "Error checking for codecov integration."

\* no run of the task yet
NoTask == [runs |-> 0, organization_id |-> 0, dry_run |-> FALSE,
           saved |-> FALSE, raised |-> FALSE]

\* the codecov task is not part of the behaviour
NoCodecov ==
    /\ organizations = [o \in OrganizationIds |-> NoOrganization]
    /\ integrations = {}
    /\ logged = << >>
    /\ task = NoTask

InitCommon ==
    /\ NoCodecov
    /\ monitors = [m \in Monitors |-> InitialMonitor]
    /\ monitor_envs = [k \in EnvKeys |-> NoRow]
    /\ environments = {}
    /\ checkins = << >>
    /\ project_flags \in {[has_cron_checkins |-> FALSE, has_cron_monitors |-> b] : b \in BOOLEAN}
    /\ signals = << >>
    /\ ratelimit = [k \in RateLimitKeys |-> 0]
    /\ req = [w \in Workers |-> Idle]
    /\ response = NoResponse
    /\ admin_ops = 0

Init == InitCommon /\ scope = WideScope

InitQuota == InitCommon /\ scope = QuotaScope

InitNotify == InitCommon /\ scope = NotifyScope

\* a project with any values of its two flags: one that got its check-ins
\* before the flags were kept has them unset, or has_cron_checkins alone set
InitFlags ==
    /\ NoCodecov
    /\ monitors = [m \in Monitors |-> InitialMonitor]
    /\ monitor_envs = [k \in EnvKeys |-> NoRow]
    /\ environments = {}
    /\ checkins = << >>
    /\ project_flags \in [has_cron_checkins : BOOLEAN, has_cron_monitors : BOOLEAN]
    /\ signals = << >>
    /\ ratelimit = [k \in RateLimitKeys |-> 0]
    /\ req = [w \in Workers |-> Idle]
    /\ response = NoResponse
    /\ admin_ops = 0
    /\ scope = FlagsScope


\* --------------------------------------------------------------- actions
Respond(code, body, auth, m) ==
    [code |-> code, body |-> body, auth |-> auth, monitor |-> m]

InFlight == Cardinality({w \in Workers : req[w].pc = "admitted"})

\* the check-in row inserted before the rate limiter is asked
Begin_insertFirst(w) ==
    /\ w \in scope.workers
    /\ req[w].pc = "idle"
    /\ \E m \in Monitors, status \in scope.statuses, date_added \in scope.times :
         LET monitor == monitors[m]
             lim == is_limited(ratelimit, RateLimitKey(m), CHECKIN_QUOTA_LIMIT)
         IN  /\ ~IsBeingDeleted(monitor.status)
             /\ ratelimit[RateLimitKey(m)] < CHECKIN_QUOTA_LIMIT + MaxOverQuota
             /\ ratelimit' = lim.counts
             /\ checkins' = Append(checkins,
                                   [id |-> Len(checkins) + 1, monitor |-> m,
                                    environment |-> "production",
                                    status |-> status, date_added |-> date_added])
             /\ response' = IF lim.limited
                            THEN Respond(429, {"detail"}, "user", m)
                            ELSE Respond(201, SerializedFields, "user", m)
    /\ UNCHANGED <<monitors, monitor_envs, environments, project_flags,
                   signals, req, admin_ops, scope>>
    /\ UNCHANGED codecov_vars

\* the rate limiter asked first, before the deletion check and the payload
\* validation
Begin_limiterFirst(w) ==
    /\ w \in scope.workers
    /\ req[w].pc = "idle"
    /\ \E m \in Monitors, valid \in BOOLEAN :
         LET monitor == monitors[m]
             lim == is_limited(ratelimit, RateLimitKey(m), CHECKIN_QUOTA_LIMIT)
         IN  /\ ratelimit[RateLimitKey(m)] < CHECKIN_QUOTA_LIMIT + MaxOverQuota
             /\ ratelimit' = lim.counts
             /\ IF lim.limited
                THEN /\ response' = Respond(429, {"detail"}, "user", m)
                     /\ UNCHANGED req
                ELSE IF IsBeingDeleted(monitor.status)
                THEN /\ response' = Respond(404, {}, "user", m)
                     /\ UNCHANGED req
                ELSE IF ~valid
                THEN /\ response' = Respond(400, {"errors"}, "user", m)
                     /\ UNCHANGED req
                ELSE /\ Len(checkins) + InFlight < scope.rows
                     /\ req' = [req EXCEPT ![w] =
                                   [pc |-> "admitted", monitor |-> m, snap |-> monitor,
                                    has_cron_checkins |-> project_flags.has_cron_checkins,
                                    has_cron_monitors |-> project_flags.has_cron_monitors]]
                     /\ response' = NoResponse
    /\ UNCHANGED <<monitors, monitor_envs, environments, checkins, project_flags,
                   signals, admin_ops, scope>>
    /\ UNCHANGED codecov_vars

\* lines 134-151 on the monitor and project loaded for the request: the
\* deletion check, the payload validation and the rate limiter
Begin(w) ==
    /\ w \in scope.workers
    /\ req[w].pc = "idle"
    /\ \E m \in Monitors, valid \in BOOLEAN :
         LET monitor == monitors[m]
             lim == is_limited(ratelimit, RateLimitKey(m), CHECKIN_QUOTA_LIMIT)
         IN  IF IsBeingDeleted(monitor.status)
             THEN /\ response' = Respond(404, {}, "user", m)
                  /\ UNCHANGED <<ratelimit, req>>
             ELSE IF ~valid
             THEN /\ response' = Respond(400, {"errors"}, "user", m)
                  /\ UNCHANGED <<ratelimit, req>>
             ELSE /\ ratelimit[RateLimitKey(m)] < CHECKIN_QUOTA_LIMIT + MaxOverQuota
                  /\ ratelimit' = lim.counts
                  /\ IF lim.limited
                     THEN /\ response' = Respond(429, {"detail"}, "user", m)
                          /\ UNCHANGED req
                     ELSE /\ Len(checkins) + InFlight < scope.rows
                          /\ req' = [req EXCEPT ![w] =
                                        [pc |-> "admitted", monitor |-> m, snap |-> monitor,
                                         has_cron_checkins |-> project_flags.has_cron_checkins,
                                         has_cron_monitors |-> project_flags.has_cron_monitors]]
                          /\ response' = NoResponse
    /\ UNCHANGED <<monitors, monitor_envs, environments, checkins, project_flags,
                   signals, admin_ops, scope>>
    /\ UNCHANGED codecov_vars

\* the has_cron_checkins test of line 180 left out
SignalsSent_always(has_cron_checkins, has_cron_monitors) ==
    (IF ~has_cron_monitors THEN <<"first_cron_monitor_created">> ELSE << >>)
    \o <<"first_cron_checkin_received">>

\* the test of has_cron_monitors taken out of the test of has_cron_checkins
SignalsSent_unnested(has_cron_checkins, has_cron_monitors) ==
    (IF ~has_cron_monitors THEN <<"first_cron_monitor_created">> ELSE << >>)
    \o (IF ~has_cron_checkins THEN <<"first_cron_checkin_received">> ELSE << >>)

\* the signals of lines 180-188, in sending order
SignalsSent(has_cron_checkins, has_cron_monitors) ==
    IF ~has_cron_checkins
    THEN (IF ~has_cron_monitors THEN <<"first_cron_monitor_created">> ELSE << >>)
         \o <<"first_cron_checkin_received">>
    ELSE << >>

\* the project's flags after the signals: the flag of a signal is set once
\* the signal was sent, whether or not its delivery failed
FlagsAfter(flags, sent) ==
    [has_cron_checkins |-> flags.has_cron_checkins
                           \/ \E i \in 1..Len(sent) : sent[i] = "first_cron_checkin_received",
     has_cron_monitors |-> flags.has_cron_monitors
                           \/ \E i \in 1..Len(sent) : sent[i] = "first_cron_monitor_created"]

\* the row looked up by environment alone: one row for all monitors
MonitorEnvironmentKey_byEnvironment(m, e) == <<1, e>>

\* the row get_or_create(monitor=monitor, environment=environment) of lines
\* 162-164 finds or creates
MonitorEnvironmentKey(m, e) == <<m, e>>

\* create in the place of get_or_create: the request makes a row of its own,
\* seeded from the loaded monitor, also when the pair has a row
GetOrCreateMonitorEnvironment_create(envs, m, e, monitor) ==
    [status |-> monitor.status,
     next_checkin |-> monitor.next_checkin,
     last_checkin |-> monitor.last_checkin]

\* lines 162-170: MonitorEnvironment.objects.get_or_create and the seeding of
\* a created row from the loaded monitor
GetOrCreateMonitorEnvironment(envs, m, e, monitor) ==
    IF envs[MonitorEnvironmentKey(m, e)] = NoRow
    THEN [status |-> monitor.status,
          next_checkin |-> monitor.next_checkin,
          last_checkin |-> monitor.last_checkin]
    ELSE envs[MonitorEnvironmentKey(m, e)]

\* monitor.mark_failed of line 191 called without the check-in's date, so
\* that the row keeps the last_checkin and next_checkin it had
Transition_failedWithoutDate(monitor_row, env_row, m, monitor, checkin_status, date_added) ==
    IF TakesFailedPath(checkin_status, monitor.status)
    THEN LET mf == mark_failed(monitor_row, m, date_added)
             ef == mark_failed(env_row, m, date_added)
         IN  [monitor |-> [mf.row EXCEPT !.last_checkin = monitor_row.last_checkin,
                                         !.next_checkin = monitor_row.next_checkin],
              env |-> ef.row, early |-> ~mf.result]
    ELSE LET params == monitor_params(m, checkin_status, monitor.status, date_added)
         IN  [monitor |-> GuardedUpdate(monitor_row, params, date_added),
              env |-> GuardedUpdate(env_row, params, date_added),
              early |-> FALSE]

\* the update of the Monitor row of lines 204-206 left out: the check-in is
\* applied to the MonitorEnvironment row alone
Transition_environmentOnly(monitor_row, env_row, m, monitor, checkin_status, date_added) ==
    IF TakesFailedPath(checkin_status, monitor.status)
    THEN LET mf == mark_failed(monitor_row, m, date_added)
             ef == mark_failed(env_row, m, date_added)
         IN  [monitor |-> mf.row, env |-> ef.row, early |-> ~mf.result]
    ELSE LET params == monitor_params(m, checkin_status, monitor.status, date_added)
         IN  [monitor |-> monitor_row,
              env |-> GuardedUpdate(env_row, params, date_added),
              early |-> FALSE]

\* lines 190-209: the rows after the status transition and whether the
\* handler returns early with 200
Transition(monitor_row, env_row, m, monitor, checkin_status, date_added) ==
    IF TakesFailedPath(checkin_status, monitor.status)
    THEN LET mf == mark_failed(monitor_row, m, date_added)
             ef == mark_failed(env_row, m, date_added)
         IN  [monitor |-> mf.row, env |-> ef.row, early |-> ~mf.result]
    ELSE LET params == monitor_params(m, checkin_status, monitor.status, date_added)
         IN  [monitor |-> GuardedUpdate(monitor_row, params, date_added),
              env |-> GuardedUpdate(env_row, params, date_added),
              early |-> FALSE]

\* the early return without the test of request.auth
ResponseFor_serializedOnEarly(early, auth) ==
    IF early
    THEN [code |-> 200, body |-> SerializedFields]
    ELSE [code |-> 201, body |-> IF auth = "ProjectKey" THEN {"id"} ELSE SerializedFields]

\* the result of monitor.mark_failed not looked at: every request that
\* reaches the end is answered 201
ResponseFor_alwaysCreated(early, auth) ==
    [code |-> 201, body |-> IF auth = "ProjectKey" THEN {"id"} ELSE SerializedFields]

\* lines 194-196 and 211-214: status code and body of the response
ResponseFor(early, auth) ==
    IF early
    THEN [code |-> 200, body |-> IF auth = "ProjectKey" THEN {} ELSE SerializedFields]
    ELSE [code |-> 201, body |-> IF auth = "ProjectKey" THEN {"id"} ELSE SerializedFields]

\* update_or_create in the place of create: the check-in recorded before
\* for the same monitor and environment is overwritten
MonitorCheckIn_update_or_create(rows, checkin) ==
    LET same == {i \in DOMAIN rows : /\ rows[i].monitor = checkin.monitor
                                      /\ rows[i].environment = checkin.environment}
    IN  IF same = {}
        THEN Append(rows, checkin)
        ELSE [i \in DOMAIN rows |->
                 IF i \in same
                 THEN [rows[i] EXCEPT !.status = checkin.status,
                                      !.date_added = checkin.date_added]
                 ELSE rows[i]]

\* MonitorCheckIn.objects.create of lines 172-178: one new row
MonitorCheckIn_create(rows, checkin) == Append(rows, checkin)

\* the MonitorEnvironment rows filtered by monitor instead of by id: every
\* MonitorEnvironment row of the monitor is written
MonitorEnvironment_update_byMonitor(envs, m, e, row) ==
    [k \in DOMAIN envs |->
        IF k = MonitorEnvironmentKey(m, e) \/ (k[1] = m /\ envs[k] # NoRow)
        THEN row
        ELSE envs[k]]

\* the MonitorEnvironment rows after lines 162-170 and the write to the row
\* with id = monitor_environment.id of lines 192 and 207-209
MonitorEnvironment_update(envs, m, e, row) ==
    [envs EXCEPT ![MonitorEnvironmentKey(m, e)] = row]

\* Signal.send in the place of send_robust: the exception of a receiver
\* reaches the sender
send_raising(sent, undelivered) ==
    [raised |-> \E i \in 1..Len(sent) : sent[i] \in undelivered]

\* Signal.send_robust of lines 183 and 186: the exception of a receiver is
\* caught and handed back in the result, which the handler drops
send_robust(sent, undelivered) == [raised |-> FALSE]

\* lines 153-219: the transaction and the response.  An exception that leaves
\* the transaction.atomic() block rolls the transaction back and the request
\* is answered 500
Txn(w) ==
    /\ req[w].pc = "admitted"
    /\ \E name \in scope.names, status \in scope.statuses,
          date_added \in scope.times, auth \in scope.auths,
          undelivered \in SUBSET scope.undeliverable :
         LET m == req[w].monitor
             monitor == req[w].snap
             e == environment_name(name)
             env_row == GetOrCreateMonitorEnvironment(monitor_envs, m, e, monitor)
             id == Len(checkins) + 1
             checkin == [id |-> id, monitor |-> m, environment |-> e,
                         status |-> status, date_added |-> date_added]
             sent == SignalsSent(req[w].has_cron_checkins, req[w].has_cron_monitors)
             t == Transition(monitors[m], env_row, m, monitor, status, date_added)
             r == ResponseFor(t.early, auth)
         IN  IF send_robust(sent, undelivered).raised
             THEN /\ response' = Respond(500, {"detail"}, auth, m)
                  /\ UNCHANGED <<environments, checkins, signals, project_flags,
                                 monitors, monitor_envs>>
             ELSE /\ environments' = environments \cup {e}
                  /\ checkins' = MonitorCheckIn_create(checkins, checkin)
                  /\ signals' = signals \o
                        [i \in 1..Len(sent) |->
                            [name |-> sent[i], checkin |-> id,
                             delivered |-> sent[i] \notin undelivered]]
                  /\ project_flags' = FlagsAfter(project_flags, sent)
                  /\ monitors' = [monitors EXCEPT ![m] = t.monitor]
                  /\ monitor_envs' = MonitorEnvironment_update(monitor_envs, m, e, t.env)
                  /\ response' = Respond(r.code, r.body, auth, m)
    /\ req' = [req EXCEPT ![w] = Idle]
    /\ UNCHANGED <<ratelimit, admin_ops, scope>>
    /\ UNCHANGED codecov_vars

\* monitor management (outside the handler) sets a monitor's status
Admin(m) ==
    /\ admin_ops < MaxAdminOps
    /\ \E s \in {"ACTIVE", "DISABLED", "PENDING_DELETION", "DELETION_IN_PROGRESS"} :
         /\ s # monitors[m].status
         /\ monitors' = [monitors EXCEPT ![m].status = s]
    /\ admin_ops' = admin_ops + 1
    /\ response' = NoResponse
    /\ UNCHANGED <<monitor_envs, environments, checkins, project_flags, signals,
                   ratelimit, req, scope>>
    /\ UNCHANGED codecov_vars

\* the limiter's window ends: the next window starts with empty counters
NewWindow ==
    /\ \E k \in RateLimitKeys : ratelimit[k] > 0
    /\ ratelimit' = [k \in RateLimitKeys |-> 0]
    /\ response' = NoResponse
    /\ UNCHANGED <<monitors, monitor_envs, environments, checkins, project_flags,
                   signals, req, admin_ops, scope>>
    /\ UNCHANGED codecov_vars

Next ==
    \/ \E w \in Workers : Begin(w)
    \/ \E w \in Workers : Txn(w)
    \/ \E m \in ManagedMonitors : Admin(m)
    \/ NewWindow

Spec == Init /\ [][Next]_vars

SpecQuota == InitQuota /\ [][Next]_vars

SpecNotify == InitNotify /\ [][Next]_vars

SpecFlags == InitFlags /\ [][Next]_vars

\* ---------------------------------------------------------------------
\* sentry.tasks.auto_enable_codecov.enable_for_organization

\* the flag is set whether or not the organization has the integration
codecov_access_after_withoutIntegration(organization, has_integration) ==
    TRUE

\* lines 51-57 on a loaded organization: the value of flags.codecov_access
\* the task leaves in the row
codecov_access_after(organization, has_integration) ==
    IF ~has_integration
    THEN organization.codecov_access
    ELSE IF organization.codecov_access
         THEN organization.codecov_access
         ELSE TRUE

\* has_codecov_integration(organization): whether the organization has a
\* valid Codecov integration
has_codecov_integration(organization_id) == organization_id \in integrations

\* one run of the task, lines 44-68; error: has_codecov_integration raises;
\* dry_run is accepted and never read
enable_for_organization(organization_id, dry_run) ==
    /\ task.runs < MaxRuns
    /\ \E error \in BOOLEAN :
         LET organization == organizations[organization_id]
             \* organization.save() is reached, line 58
             saved == /\ organization # NoOrganization
                      /\ ~error
                      /\ has_codecov_integration(organization_id)
                      /\ ~organization.codecov_access
         IN  /\ task' = [runs |-> task.runs + 1, organization_id |-> organization_id,
                         dry_run |-> dry_run, saved |-> saved, raised |-> FALSE]
             /\ IF organization = NoOrganization
                THEN /\ logged' = Append(logged, [message |-> DoesNotExistMessage,
                                                   organization_id |-> organization_id])
                     /\ UNCHANGED organizations
                ELSE IF error
                THEN /\ logged' = Append(logged, [message |-> ErrorMessage,
                                                   organization_id |-> organization_id])
                     /\ UNCHANGED organizations
                ELSE /\ organizations' =
                          [organizations EXCEPT ![organization_id].codecov_access =
                              codecov_access_after(organization,
                                                   has_codecov_integration(organization_id))]
                     /\ UNCHANGED logged
    /\ UNCHANGED integrations
    /\ UNCHANGED checkin_vars

\* organizations that exist or not, with or without the flag and the
\* integration; the check-in endpoint is at rest
InitCodecov ==
    /\ organizations \in [OrganizationIds -> OrganizationRows]
    /\ integrations \in SUBSET OrganizationIds
    /\ logged = << >>
    /\ task = NoTask
    /\ monitors = [m \in Monitors |-> InitialMonitor]
    /\ monitor_envs = [k \in EnvKeys |-> NoRow]
    /\ environments = {}
    /\ checkins = << >>
    /\ project_flags = [has_cron_checkins |-> FALSE, has_cron_monitors |-> FALSE]
    /\ signals = << >>
    /\ ratelimit = [k \in RateLimitKeys |-> 0]
    /\ req = [w \in Workers |-> Idle]
    /\ response = NoResponse
    /\ admin_ops = 0
    /\ scope = WideScope

NextCodecov ==
    \E organization_id \in OrganizationIds, dry_run \in BOOLEAN :
        enable_for_organization(organization_id, dry_run)

SpecCodecov == InitCodecov /\ [][NextCodecov]_vars

TypeOK ==
    /\ \A m \in Monitors : monitors[m].status \in MonitorStatus
    /\ Len(checkins) <= scope.rows


\* ---------------------------------------------------------------- claims
\* the step is the transaction of worker w
TxnStep(w) == req[w].pc = "admitted" /\ req'[w].pc = "idle"

\* the step admits the request of worker w
AdmitStep(w) == req[w].pc = "idle" /\ req'[w].pc = "admitted"

\* the check-in row inserted by a transaction step
Recorded == checkins'[Len(checkins')]

\* the row is newer than a check-in of this date
Newer(row, date_added) == row.last_checkin # NULL /\ row.last_checkin > date_added

\* the monitor row after a request that loads the row as stored and runs to
\* its end without any other request in between
AfterCheckIn(row, m, status, date_added) ==
    IF IsBeingDeleted(row.status)
    THEN row
    ELSE Transition(row, row, m, row, status, date_added).monitor

\* the statuses of a monitor that is logically gone
Deleting == {"PENDING_DELETION", "DELETION_IN_PROGRESS"}

\* the rows of the check-ins recorded for monitor m
CheckInsOf(m) == {i \in DOMAIN checkins : checkins[i].monitor = m}

\* C1: when exactly two check-ins with date_added T1 < T2 have been applied
\* to a monitor, in either arrival order, the monitor has last_checkin = T2
\* and the status, last_checkin and next_checkin that applying them in the
\* order T1, T2 gives
C1_OrderingConvergence ==
    \A m \in Monitors :
        \A i \in CheckInsOf(m), j \in CheckInsOf(m) :
            (/\ CheckInsOf(m) = {i, j}
             /\ checkins[i].date_added < checkins[j].date_added
             /\ admin_ops = 0
             /\ \A w \in Workers : req[w].pc = "idle") =>
                /\ monitors[m].last_checkin = checkins[j].date_added
                /\ monitors[m] =
                     AfterCheckIn(
                         AfterCheckIn(InitialMonitor, m,
                                      checkins[i].status, checkins[i].date_added),
                         m, checkins[j].status, checkins[j].date_added)

\* C2: last_checkin of a Monitor row and of a MonitorEnvironment row never
\* decreases; a check-in older than the stored last_checkin of a row is
\* inserted and leaves that row as it is, and a row whose last_checkin is
\* NULL or not newer takes the check-in's date_added
C2_OutOfOrderGuard ==
    [][/\ \A m \in Monitors :
            monitors[m].last_checkin # NULL =>
                monitors'[m].last_checkin >= monitors[m].last_checkin
       /\ \A k \in EnvKeys :
            monitor_envs[k] # NoRow =>
                /\ monitor_envs'[k] # NoRow
                /\ monitor_envs[k].last_checkin # NULL =>
                       monitor_envs'[k].last_checkin >= monitor_envs[k].last_checkin
       /\ \A w \in Workers :
            TxnStep(w) =>
                LET m == req[w].monitor
                    k == <<m, Recorded.environment>>
                    d == Recorded.date_added
                    env == IF monitor_envs[k] = NoRow
                           THEN [status |-> req[w].snap.status,
                                 last_checkin |-> req[w].snap.last_checkin,
                                 next_checkin |-> req[w].snap.next_checkin]
                           ELSE monitor_envs[k]
                IN  /\ Len(checkins') = Len(checkins) + 1
                    /\ Recorded.monitor = m
                    /\ IF Newer(monitors[m], d)
                       THEN monitors'[m] = monitors[m]
                       ELSE monitors'[m].last_checkin = d
                    /\ IF Newer(env, d)
                       THEN monitor_envs'[k] = env
                       ELSE monitor_envs'[k].last_checkin = d
      ]_vars

\* C2 witness: a check-in older than the monitor's and the environment's
\* last_checkin has been inserted
C2_Witness ==
    /\ response.code \in {200, 201}
    /\ Len(checkins) > 0
    /\ LET c == checkins[Len(checkins)]
       IN  /\ c.date_added < monitors[c.monitor].last_checkin
           /\ c.date_added < monitor_envs[<<c.monitor, c.environment>>].last_checkin

\* C3: a check-in of any status for a monitor loaded and stored as DISABLED
\* leaves the monitor DISABLED and its MonitorEnvironment (created now, or
\* DISABLED before) DISABLED, is inserted, and sets last_checkin and
\* next_checkin of each of the two rows that is not newer than it
C3_DisabledSticky ==
    [][\A w \in Workers :
         (/\ TxnStep(w)
          /\ req[w].snap.status = "DISABLED"
          /\ monitors[req[w].monitor].status = "DISABLED") =>
            LET m == req[w].monitor
                k == <<m, Recorded.environment>>
                d == Recorded.date_added
                old == monitor_envs[k]
                seed == IF old = NoRow THEN req[w].snap ELSE old
            IN  /\ Len(checkins') = Len(checkins) + 1
                /\ response'.code = 201
                /\ monitors'[m].status = "DISABLED"
                /\ seed.status = "DISABLED" => monitor_envs'[k].status = "DISABLED"
                /\ ~Newer(monitors[m], d) =>
                       /\ monitors'[m].last_checkin = d
                       /\ monitors'[m].next_checkin = get_next_scheduled_checkin(m, d)
                /\ ~Newer(seed, d) =>
                       /\ monitor_envs'[k].last_checkin = d
                       /\ monitor_envs'[k].next_checkin = get_next_scheduled_checkin(m, d)
      ]_vars

\* C3 witness: an ERROR check-in and an OK check-in were recorded for a
\* DISABLED monitor whose rows carry the date of the later one
C3_Witness ==
    \E i \in DOMAIN checkins, j \in DOMAIN checkins :
        LET c == checkins[i]
            o == checkins[j]
            k == <<o.monitor, o.environment>>
        IN  /\ i < j
            /\ c.status = "ERROR" /\ o.status = "OK"
            /\ c.monitor = o.monitor /\ c.environment = o.environment
            /\ c.date_added < o.date_added
            /\ monitors[o.monitor].status = "DISABLED"
            /\ monitors[o.monitor].last_checkin = o.date_added
            /\ monitor_envs[k].status = "DISABLED"
            /\ monitor_envs[k].last_checkin = o.date_added
            /\ monitor_envs[k].next_checkin = get_next_scheduled_checkin(o.monitor, o.date_added)

\* C4: a request for a monitor that is PENDING_DELETION or
\* DELETION_IN_PROGRESS gets 404 whatever its payload (it is never answered
\* 400 or 429 and never admitted), and the 404 changes no row, no flag, no
\* signal and no limiter counter
C4_SoftDeleted ==
    [][/\ response'.code = 404 =>
            /\ monitors[response'.monitor].status \in Deleting
            /\ UNCHANGED <<monitors, monitor_envs, environments, checkins,
                           project_flags, signals, ratelimit, req>>
       /\ response'.code \in {400, 429} =>
            monitors[response'.monitor].status \notin Deleting
       /\ \A w \in Workers :
            AdmitStep(w) => monitors[req'[w].monitor].status \notin Deleting
      ]_vars

\* C4 witness: a request for a monitor in DELETION_IN_PROGRESS was answered 404
C4_Witness ==
    /\ response.code = 404
    /\ monitors[response.monitor].status = "DELETION_IN_PROGRESS"

\* number of first_cron_checkin_received among the signals of a sequence
Received(seq) ==
    Cardinality({i \in DOMAIN seq : seq[i].name = "first_cron_checkin_received"})

\* C5: a valid request for a monitor is admitted, and then Created, when
\* fewer than CHECKIN_QUOTA_LIMIT = 5 valid requests for that monitor came
\* before it in the window, and is answered 429 when 5 or more did; a request
\* counts in the window of its own monitor only
C5_RateLimitBoundary ==
    [][/\ \A w \in Workers :
            AdmitStep(w) =>
                LET m == req'[w].monitor
                IN  /\ ratelimit[<<"monitor-checkins", m>>] < 5
                    /\ ratelimit'[<<"monitor-checkins", m>>]
                         = ratelimit[<<"monitor-checkins", m>>] + 1
                    /\ \A o \in Monitors \ {m} :
                         ratelimit'[<<"monitor-checkins", o>>]
                             = ratelimit[<<"monitor-checkins", o>>]
       /\ response'.code = 429 =>
            LET m == response'.monitor
            IN  /\ ratelimit[<<"monitor-checkins", m>>] >= 5
                /\ ratelimit'[<<"monitor-checkins", m>>]
                     = ratelimit[<<"monitor-checkins", m>>] + 1
                /\ \A o \in Monitors \ {m} :
                     ratelimit'[<<"monitor-checkins", o>>]
                         = ratelimit[<<"monitor-checkins", o>>]
       /\ \A w \in Workers :
            TxnStep(w) => response'.code = 201 /\ Len(checkins') = Len(checkins) + 1
      ]_vars

\* C5 witness: five check-ins of one monitor were Created in the window, a
\* sixth request for it was answered 429, and the other monitor still has
\* quota left
C5_Witness ==
    /\ response.code = 429
    /\ Cardinality(CheckInsOf(response.monitor)) = 5
    /\ ratelimit[<<"monitor-checkins", response.monitor>>] = 6
    /\ \E o \in Monitors \ {response.monitor} : ratelimit[<<"monitor-checkins", o>>] < 5

\* C6: a request answered 429 creates no Environment, MonitorEnvironment or
\* MonitorCheckIn row, changes no Monitor or MonitorEnvironment row and no
\* project flag and sends no signal
C6_RateLimitedNoWrites ==
    [][response'.code = 429 =>
         UNCHANGED <<monitors, monitor_envs, environments, checkins,
                     project_flags, signals, req>>
      ]_vars

\* C6 witness: two requests in a row were answered 429 and the monitor still
\* has the five check-ins and the rows they left
C6_Witness ==
    /\ response.code = 429
    /\ ratelimit[<<"monitor-checkins", response.monitor>>] = 7
    /\ Len(checkins) = 5
    /\ monitors[response.monitor].last_checkin = checkins[5].date_added
    /\ environments = {"production"}

\* C7: requests served one after the other: the check-in that finds the
\* project's has_cron_checkins flag unset sends first_cron_checkin_received
\* once and sets the flag, a request loaded with the flag set sends nothing,
\* the flag once set stays set, and the signal on record is the one of the
\* first check-in
C7_FirstCheckInOnce ==
    [][/\ project_flags.has_cron_checkins => project_flags'.has_cron_checkins
       /\ \A w \in Workers :
            TxnStep(w) =>
                LET sent == SubSeq(signals', Len(signals) + 1, Len(signals'))
                IN  /\ Received(sent) <= 1
                    /\ req[w].has_cron_checkins => sent = << >>
                    /\ ~project_flags.has_cron_checkins =>
                           /\ Received(sent) = 1
                           /\ project_flags'.has_cron_checkins
                           /\ Len(checkins) = 0
       /\ (\A w \in Workers : ~TxnStep(w)) => signals' = signals
       /\ project_flags'.has_cron_checkins <=>
            \E i \in DOMAIN signals' :
                /\ signals'[i].name = "first_cron_checkin_received"
                /\ signals'[i].checkin = 1
      ]_vars

\* C7 witness: two check-ins were created one after the other and the only
\* first_cron_checkin_received on record is the one of the first
C7_Witness ==
    /\ Len(checkins) = 2
    /\ Received(signals) = 1
    /\ project_flags.has_cron_checkins
    /\ \A w \in Workers : req[w].pc = "idle"

\* the step is a transaction that inserts a check-in of this status for a
\* monitor that is not DISABLED (as loaded and as stored) and not being deleted
CheckInStep(w, status) ==
    /\ TxnStep(w)
    /\ Recorded.status = status
    /\ req[w].snap.status # "DISABLED"
    /\ monitors[req[w].monitor].status \notin {"DISABLED"} \cup Deleting

\* C8: an OK check-in with date_added T for a monitor that is not DISABLED
\* and not being deleted and whose last_checkin is NULL or <= T is inserted
\* with status OK, is answered 201 and leaves the Monitor and the check-in's
\* MonitorEnvironment with status OK, last_checkin T and next_checkin
\* schedule-next(T)
C8_OkCheckIn ==
    [][\A w \in Workers :
         (CheckInStep(w, "OK") /\ ~Newer(monitors[req[w].monitor], Recorded.date_added)) =>
            LET m == req[w].monitor
                T == Recorded.date_added
                after == [status |-> "OK", last_checkin |-> T,
                          next_checkin |-> get_next_scheduled_checkin(m, T)]
            IN  /\ response'.code = 201
                /\ Recorded.monitor = m
                /\ monitors'[m] = after
                /\ monitor_envs'[<<m, Recorded.environment>>] = after
                /\ after.next_checkin > T
                /\ m = 1 => after.next_checkin = T + 1
      ]_vars

\* C8 witness: an OK check-in at T = 2 was created for the monitor with the
\* schedule `* * * * *`, status ERROR before, and left both rows OK with
\* next_checkin 3
C8_Witness ==
    /\ response.code = 201
    /\ Len(checkins) = 2
    /\ checkins[1] = [id |-> 1, monitor |-> 1, environment |-> "staging",
                      status |-> "ERROR", date_added |-> 1]
    /\ checkins[2] = [id |-> 2, monitor |-> 1, environment |-> "staging",
                      status |-> "OK", date_added |-> 2]
    /\ monitors[1] = [status |-> "OK", last_checkin |-> 2, next_checkin |-> 3]
    /\ monitor_envs[<<1, "staging">>] = monitors[1]

\* C9 as stated: an ERROR check-in with date_added T for a monitor that is
\* not DISABLED and not being deleted is answered 201 and leaves the Monitor
\* and the MonitorEnvironment with status ERROR, last_checkin T and
\* next_checkin schedule-next(T)
C9_ErrorCheckIn_Original ==
    [][\A w \in Workers :
         CheckInStep(w, "ERROR") =>
            LET m == req[w].monitor
                T == Recorded.date_added
                after == [status |-> "ERROR", last_checkin |-> T,
                          next_checkin |-> get_next_scheduled_checkin(m, T)]
            IN  /\ response'.code = 201
                /\ monitors'[m] = after
                /\ monitor_envs'[<<m, Recorded.environment>>] = after
      ]_vars

\* C9 amended: the same for a monitor whose stored last_checkin is NULL or
\* <= T; the check-in row is inserted with status ERROR
C9_ErrorCheckIn ==
    [][\A w \in Workers :
         (CheckInStep(w, "ERROR") /\ ~Newer(monitors[req[w].monitor], Recorded.date_added)) =>
            LET m == req[w].monitor
                T == Recorded.date_added
                after == [status |-> "ERROR", last_checkin |-> T,
                          next_checkin |-> get_next_scheduled_checkin(m, T)]
            IN  /\ response'.code = 201
                /\ Len(checkins') = Len(checkins) + 1
                /\ Recorded.monitor = m
                /\ monitors'[m] = after
                /\ monitor_envs'[<<m, Recorded.environment>>] = after
      ]_vars

\* C9 witness: an ERROR check-in at T = 2 was created for the monitor with
\* the schedule `*/2 * * * *` after an OK check-in at T = 1 and left both
\* rows ERROR with next_checkin 4
C9_Witness ==
    /\ response.code = 201
    /\ Len(checkins) = 2
    /\ checkins[1].status = "OK" /\ checkins[1].date_added = 1
    /\ checkins[1].monitor = 2 /\ checkins[1].environment = "production"
    /\ checkins[2] = [id |-> 2, monitor |-> 2, environment |-> "production",
                      status |-> "ERROR", date_added |-> 2]
    /\ monitors[2] = [status |-> "ERROR", last_checkin |-> 2, next_checkin |-> 4]
    /\ monitor_envs[<<2, "production">>] = monitors[2]

\* C10 as stated: an ERROR check-in at T for a monitor that is not DISABLED
\* sets the monitor's status to ERROR and its last_checkin to T and keeps
\* its next_checkin
C10_ErrorKeepsNext_Original ==
    [][\A w \in Workers :
         CheckInStep(w, "ERROR") =>
            LET m == req[w].monitor
            IN  /\ monitors'[m].status = "ERROR"
                /\ monitors'[m].last_checkin = Recorded.date_added
                /\ monitors'[m].next_checkin = monitors[m].next_checkin
      ]_vars

\* C10 amended: an ERROR check-in at T for a monitor that is not DISABLED and
\* whose stored last_checkin is NULL or <= T sets the monitor's status to
\* ERROR, its last_checkin to T and its next_checkin to schedule-next(T),
\* which is later than T and than the next_checkin before; an ERROR check-in
\* older than the stored last_checkin leaves the Monitor row as it is
C10_ErrorRecomputesNext ==
    [][\A w \in Workers :
         CheckInStep(w, "ERROR") =>
            LET m == req[w].monitor
                T == Recorded.date_added
            IN  IF Newer(monitors[m], T)
                THEN monitors'[m] = monitors[m]
                ELSE /\ monitors'[m].status = "ERROR"
                     /\ monitors'[m].last_checkin = T
                     /\ monitors'[m].next_checkin = get_next_scheduled_checkin(m, T)
                     /\ monitors'[m].next_checkin > T
                     /\ monitors'[m].next_checkin >= monitors[m].next_checkin
      ]_vars

\* C10 witness: the first check-in of a monitor was an ERROR check-in and
\* moved its next_checkin from the past to schedule-next(T)
C10_Witness ==
    /\ response.code = 201
    /\ Len(checkins) = 1
    /\ checkins[1].status = "ERROR"
    /\ LET m == checkins[1].monitor
       IN  /\ monitors[m].status = "ERROR"
           /\ monitors[m].last_checkin = checkins[1].date_added
           /\ monitors[m].next_checkin
                = get_next_scheduled_checkin(m, checkins[1].date_added)
           /\ monitors[m].next_checkin # InitialMonitor.next_checkin

\* C11: a check-in that is not an OK check-in never takes a Monitor row or a
\* MonitorEnvironment row out of ERROR: a row that is ERROR before the
\* transaction of a check-in and not ERROR after it was changed by an OK
\* check-in, and an ERROR or IN_PROGRESS check-in leaves every ERROR row ERROR
C11_OnlyOkClearsError ==
    [][\A w \in Workers :
         TxnStep(w) =>
            /\ \A m \in Monitors :
                 (monitors[m].status = "ERROR" /\ monitors'[m].status # "ERROR") =>
                     /\ Recorded.status = "OK"
                     /\ Recorded.monitor = m
                     /\ monitors'[m].status = "OK"
            /\ \A k \in EnvKeys :
                 (monitor_envs[k].status = "ERROR" /\ monitor_envs'[k].status # "ERROR") =>
                     /\ Recorded.status = "OK"
                     /\ <<Recorded.monitor, Recorded.environment>> = k
                     /\ monitor_envs'[k].status = "OK"
      ]_vars

\* C11 witness: an IN_PROGRESS check-in newer than the ERROR check-in before
\* it was applied to the monitor and its environment (both carry its date)
\* and both are still ERROR
C11_Witness ==
    /\ response.code = 201
    /\ Len(checkins) = 2
    /\ checkins[1].status = "ERROR" /\ checkins[2].status = "IN_PROGRESS"
    /\ checkins[1].monitor = checkins[2].monitor
    /\ checkins[1].environment = checkins[2].environment
    /\ checkins[1].date_added < checkins[2].date_added
    /\ LET m == checkins[2].monitor
           k == <<m, checkins[2].environment>>
       IN  /\ monitors[m].status = "ERROR"
           /\ monitors[m].last_checkin = checkins[2].date_added
           /\ monitor_envs[k].status = "ERROR"
           /\ monitor_envs[k].last_checkin = checkins[2].date_added

\* a MonitorEnvironment row with the values of a Monitor row
SeededFrom(monitor_row) ==
    [status |-> monitor_row.status,
     last_checkin |-> monitor_row.last_checkin,
     next_checkin |-> monitor_row.next_checkin]

\* C12: with check-ins as the only writers of the Monitor rows, the
\* transaction of a check-in for a (monitor, environment) pair without a
\* MonitorEnvironment creates the row with the values the Monitor row has at
\* that instant and then applies the check-in to it; a MonitorEnvironment
\* that exists is not given the monitor's values again
C12_SeedingAtCreation ==
    [][\A w \in Workers :
         (TxnStep(w) /\ admin_ops = 0) =>
            LET m == req[w].monitor
                k == <<m, Recorded.environment>>
                seed == IF monitor_envs[k] = NoRow
                        THEN SeededFrom(monitors[m])
                        ELSE monitor_envs[k]
            IN  monitor_envs'[k] =
                    Transition(monitors[m], seed, m, req[w].snap,
                               Recorded.status, Recorded.date_added).env
      ]_vars

\* C13: in every state between transactions a MonitorEnvironment row of
\* (monitor, environment) exists exactly when a check-in is recorded for that
\* monitor and environment; every check-in belongs to a monitor and to an
\* Environment of the project and so to the one MonitorEnvironment row of its
\* monitor and environment, and the check-in just recorded belongs to the
\* monitor of its request
C13_EnvironmentIffCheckIn ==
    /\ \A k \in EnvKeys :
         monitor_envs[k] # NoRow <=>
             \E i \in DOMAIN checkins :
                 checkins[i].monitor = k[1] /\ checkins[i].environment = k[2]
    /\ \A i \in DOMAIN checkins :
         /\ <<checkins[i].monitor, checkins[i].environment>> \in EnvKeys
         /\ checkins[i].environment \in environments
    /\ response.code \in {200, 201} =>
         checkins[Len(checkins)].monitor = response.monitor

\* C13 witness: check-ins of the two monitors were recorded in different
\* environments and the two other MonitorEnvironment rows do not exist
C13_Witness ==
    /\ Len(checkins) = 2
    /\ response.code = 201
    /\ checkins[1].monitor = 1 /\ checkins[1].environment = "staging"
    /\ checkins[2].monitor = 2 /\ checkins[2].environment = "production"
    /\ monitor_envs[<<1, "staging">>] # NoRow
    /\ monitor_envs[<<2, "production">>] # NoRow
    /\ monitor_envs[<<1, "production">>] = NoRow
    /\ monitor_envs[<<2, "staging">>] = NoRow

\* C14: a check-in is accepted by a Monitor row when the row's last_checkin
\* is NULL or not newer than the check-in.  An accepted check-in with
\* date_added T leaves the monitor with last_checkin T and next_checkin
\* schedule-next(T) > T, a check-in that is not accepted leaves next_checkin
\* as it is, so that a monitor with a last_checkin always has next_checkin =
\* schedule-next(last_checkin) > last_checkin, and no step lowers next_checkin
C14_NextCheckin ==
    [][/\ \A m \in Monitors :
            /\ monitors'[m].next_checkin >= monitors[m].next_checkin
            /\ monitors'[m].last_checkin # NULL =>
                 /\ monitors'[m].next_checkin
                      = get_next_scheduled_checkin(m, monitors'[m].last_checkin)
                 /\ monitors'[m].next_checkin > monitors'[m].last_checkin
       /\ \A w \in Workers :
            TxnStep(w) =>
                LET m == req[w].monitor
                    T == Recorded.date_added
                IN  IF Newer(monitors[m], T)
                    THEN monitors'[m].next_checkin = monitors[m].next_checkin
                    ELSE /\ monitors'[m].last_checkin = T
                         /\ monitors'[m].next_checkin = get_next_scheduled_checkin(m, T)
                         /\ monitors'[m].next_checkin > T
      ]_vars

\* C14 witness: the monitor with the schedule `*/2 * * * *` accepted a
\* check-in at T = 2, then recorded an older one, and its next_checkin is
\* schedule-next(2) = 4
C14_Witness ==
    /\ Len(checkins) = 2
    /\ response.code \in {200, 201}
    /\ checkins[1].monitor = 2 /\ checkins[1].date_added = 2
    /\ checkins[2].monitor = 2 /\ checkins[2].date_added = 1
    /\ monitors[2].last_checkin = 2
    /\ monitors[2].next_checkin = 4

\* C15 as stated: the response to a recorded check-in holds the id and no
\* other field for a ProjectKey caller and the serialized check-in for a
\* user, on every path
C15_RestrictedBody_Original ==
    response.code \in {200, 201} =>
        /\ response.auth = "ProjectKey" => response.body = {"id"}
        /\ response.auth = "user" =>
             response.body = {"id", "status", "duration", "dateCreated"}

\* C15 amended: the response to a recorded check-in never holds a field
\* other than the id for a ProjectKey caller: it holds the id alone when the
\* answer is 201 and is empty when the answer is 200 (an ERROR check-in that
\* mark_failed did not apply); a user gets the serialized check-in with
\* either answer
C15_RestrictedBody ==
    response.code \in {200, 201} =>
        /\ response.auth = "ProjectKey" =>
             /\ response.body \subseteq {"id"}
             /\ response.body \cap {"status", "duration", "dateCreated"} = {}
             /\ response.code = 201 => response.body = {"id"}
             /\ response.code = 200 => response.body = {}
        /\ response.auth = "user" =>
             response.body = {"id", "status", "duration", "dateCreated"}

\* C15 witness: a ProjectKey caller recorded an ERROR check-in older than the
\* monitor's last_checkin and was answered 200 with an empty body
C15_Witness ==
    /\ response.code = 200
    /\ response.auth = "ProjectKey"
    /\ response.body = {}
    /\ Len(checkins) = 2
    /\ checkins[2].status = "ERROR"
    /\ checkins[2].monitor = response.monitor
    /\ checkins[2].date_added < monitors[response.monitor].last_checkin

\* C16 as stated: a valid request is answered 201, 429 or 404 and a check-in
\* row is inserted exactly when the answer is 201
C16_Outcomes_Original ==
    [][/\ response'.code \in {0, 201, 400, 404, 429}
       /\ Len(checkins') > Len(checkins) <=> response'.code = 201
      ]_vars

\* C16 amended: a step gives at most one answer; a valid request is answered
\* 404 or 429 at admission or is admitted and then answered 201 or 200 by its
\* transaction; exactly one check-in row is inserted with an answer of 201 or
\* 200 and none otherwise; the answer is 200 exactly for an ERROR check-in of
\* a monitor loaded as not DISABLED whose stored last_checkin is newer than
\* the check-in, and 201 for every other recorded check-in
C16_Outcomes ==
    [][/\ response'.code \in {0, 200, 201, 400, 404, 429}
       /\ IF response'.code \in {200, 201}
          THEN /\ Len(checkins') = Len(checkins) + 1
               /\ \E w \in Workers : TxnStep(w)
          ELSE /\ checkins' = checkins
               /\ \A w \in Workers : ~TxnStep(w)
       /\ \A w \in Workers :
            TxnStep(w) =>
                response'.code =
                    IF /\ Recorded.status = "ERROR"
                       /\ req[w].snap.status # "DISABLED"
                       /\ Newer(monitors[req[w].monitor], Recorded.date_added)
                    THEN 200
                    ELSE 201
      ]_vars

\* C16 witness: an ERROR check-in older than the monitor's last_checkin was
\* inserted and answered 200, and the monitor and its environment are as the
\* check-in before left them
C16_Witness ==
    /\ response.code = 200
    /\ Len(checkins) = 2
    /\ checkins[1].status = "OK" /\ checkins[1].date_added = 2
    /\ checkins[2].status = "ERROR" /\ checkins[2].date_added = 1
    /\ checkins[1].monitor = checkins[2].monitor
    /\ checkins[1].environment = checkins[2].environment
    /\ monitors[checkins[2].monitor].status = "OK"
    /\ monitors[checkins[2].monitor].last_checkin = 2
    /\ monitor_envs[<<checkins[2].monitor, checkins[2].environment>>].status = "OK"

\* the step sends a signal whose delivery fails
DeliveryFails ==
    \E i \in (Len(signals) + 1)..Len(signals') : ~signals'[i].delivered

C18_DeterministicConvergence ==
    \A m \in Monitors :
        \A i \in CheckInsOf(m), j \in CheckInsOf(m) :
            (/\ CheckInsOf(m) = {i, j}
             /\ i < j
             /\ checkins[i].date_added = checkins[j].date_added
             /\ admin_ops = 0
             /\ \A w \in Workers : req[w].pc = "idle") =>
                LET ci == checkins[i]
                    cj == checkins[j]
                    ij == AfterCheckIn(AfterCheckIn(InitialMonitor, m, ci.status, ci.date_added),
                                       m, cj.status, cj.date_added)
                    ji == AfterCheckIn(AfterCheckIn(InitialMonitor, m, cj.status, cj.date_added),
                                       m, ci.status, ci.date_added)
                IN  /\ monitors[m].last_checkin = cj.date_added
                    /\ monitors[m] = ij
                    /\ monitors[m] = ji

\* C19: every step keeps every recorded check-in row as it is (id, monitor,
\* environment, status and date_added); the transaction of a check-in adds
\* exactly one row, with the next id, and no other step adds or removes a row
C19_AppendOnly ==
    [][/\ \A i \in DOMAIN checkins :
            /\ i \in DOMAIN checkins'
            /\ checkins'[i] = checkins[i]
       /\ IF \E w \in Workers : TxnStep(w)
          THEN /\ Len(checkins') = Len(checkins) + 1
               /\ Recorded.id = Len(checkins) + 1
               /\ \A i \in DOMAIN checkins : checkins[i].id # Recorded.id
          ELSE checkins' = checkins
      ]_vars

\* C19 witness: a second check-in was recorded for the monitor and the
\* environment of the first, with another status and date, and both rows are
\* on record
C19_Witness ==
    /\ Len(checkins) = 2
    /\ checkins[1].id = 1 /\ checkins[2].id = 2
    /\ checkins[1].monitor = checkins[2].monitor
    /\ checkins[1].environment = checkins[2].environment
    /\ checkins[1].status = "IN_PROGRESS" /\ checkins[2].status = "OK"
    /\ checkins[1].date_added = 1 /\ checkins[2].date_added = 2

\* C20: the transaction of a check-in decides for the MonitorEnvironment row
\* from that row's own stored status: a row that is DISABLED stays DISABLED,
\* and a row that exists, is not DISABLED and is not newer than the check-in
\* takes the status of an OK or ERROR check-in, whatever the status of its
\* Monitor
C20_PerEntityTransition ==
    [][\A w \in Workers :
         TxnStep(w) =>
            LET k == <<req[w].monitor, Recorded.environment>>
                env == monitor_envs[k]
            IN  /\ env.status = "DISABLED" => monitor_envs'[k].status = "DISABLED"
                /\ (/\ env # NoRow
                    /\ env.status # "DISABLED"
                    /\ ~Newer(env, Recorded.date_added)
                    /\ Recorded.status \in {"OK", "ERROR"}) =>
                       monitor_envs'[k].status = Recorded.status
      ]_vars

\* C21: an IN_PROGRESS check-in with date_added T for a monitor whose stored
\* last_checkin is NULL or not newer than T is inserted, answered 201 and
\* leaves the Monitor row and the check-in's MonitorEnvironment row with
\* last_checkin T, next_checkin schedule-next(T) and the status each had (a
\* MonitorEnvironment created by the check-in has the status it was created
\* with, the one of the monitor as loaded)
C21_InProgressCheckIn ==
    [][\A w \in Workers :
         (/\ TxnStep(w)
          /\ Recorded.status = "IN_PROGRESS"
          /\ ~Newer(monitors[req[w].monitor], Recorded.date_added)) =>
            LET m == req[w].monitor
                T == Recorded.date_added
                k == <<m, Recorded.environment>>
                env_status == IF monitor_envs[k] = NoRow
                              THEN req[w].snap.status
                              ELSE monitor_envs[k].status
            IN  /\ response'.code = 201
                /\ monitors'[m] = [status |-> monitors[m].status,
                                   last_checkin |-> T,
                                   next_checkin |-> get_next_scheduled_checkin(m, T)]
                /\ monitor_envs'[k] = [status |-> env_status,
                                       last_checkin |-> T,
                                       next_checkin |-> get_next_scheduled_checkin(m, T)]
      ]_vars

\* C21 witness: an IN_PROGRESS check-in at T = 2 followed an ERROR check-in
\* at T = 1 of the monitor with the schedule `*/2 * * * *`: both rows are
\* still ERROR and carry last_checkin 2 and next_checkin 4
C21_Witness ==
    /\ response.code = 201
    /\ Len(checkins) = 2
    /\ checkins[1].status = "ERROR" /\ checkins[1].date_added = 1
    /\ checkins[2].status = "IN_PROGRESS" /\ checkins[2].date_added = 2
    /\ checkins[1].monitor = 2 /\ checkins[2].monitor = 2
    /\ checkins[1].environment = "staging" /\ checkins[2].environment = "staging"
    /\ monitors[2] = [status |-> "ERROR", last_checkin |-> 2, next_checkin |-> 4]
    /\ monitor_envs[<<2, "staging">>] = monitors[2]

\* C22: whatever the interleaving of the requests of a project,
\* first_cron_checkin_received is on record at most once
C22_ReceivedAtMostOnce ==
    Received(signals) <= 1

\* the names of the signals a step sends, in sending order
SentNames ==
    [i \in 1..(Len(signals') - Len(signals)) |-> signals'[Len(signals) + i].name]

\* C23: the transaction of a check-in sends first_cron_monitor_created
\* exactly when the project, as loaded for the request, has has_cron_checkins
\* and has_cron_monitors unset, and then sends it before
\* first_cron_checkin_received; with has_cron_checkins unset and
\* has_cron_monitors set it sends first_cron_checkin_received alone; with
\* has_cron_checkins set it sends nothing, whatever has_cron_monitors is; a
\* request is loaded with the flags as they are stored at that moment
C23_MonitorCreatedSignal ==
    [][\A w \in Workers :
         /\ TxnStep(w) =>
              SentNames =
                 IF req[w].has_cron_checkins
                 THEN << >>
                 ELSE IF req[w].has_cron_monitors
                 THEN <<"first_cron_checkin_received">>
                 ELSE <<"first_cron_monitor_created", "first_cron_checkin_received">>
         /\ AdmitStep(w) =>
              /\ req'[w].has_cron_checkins = project_flags.has_cron_checkins
              /\ req'[w].has_cron_monitors = project_flags.has_cron_monitors
      ]_vars

\* C23 witness: a project with has_cron_checkins set and has_cron_monitors
\* unset recorded a check-in and no signal was sent
C23_Witness ==
    /\ response.code = 201
    /\ Len(checkins) = 1
    /\ project_flags = [has_cron_checkins |-> TRUE, has_cron_monitors |-> FALSE]
    /\ signals = << >>

C25_DefaultEnvironment ==
    /\ scope.names = {""}
    /\ \A i \in DOMAIN checkins :
         /\ checkins[i].environment = "production"
         /\ monitor_envs[<<checkins[i].monitor, "production">>] # NoRow
    /\ \A k \in EnvKeys : k[2] # "production" => monitor_envs[k] = NoRow
    /\ environments \subseteq {"production"}
    /\ \A m \in Monitors :
         /\ MonitorEnvironmentKey(m, environment_name("production")) = <<m, "production">>
         /\ \A a \in EnvironmentNames \ {""}, b \in EnvironmentNames \ {""} :
              a # b => MonitorEnvironmentKey(m, environment_name(a))
                         # MonitorEnvironmentKey(m, environment_name(b))

\* C25 witness: check-ins without an environment name were recorded for both
\* monitors, each against the "production" row of its monitor
C25_Witness ==
    /\ scope.names = {""}
    /\ Len(checkins) = 2
    /\ checkins[1].monitor # checkins[2].monitor
    /\ checkins[1].environment = "production"
    /\ checkins[2].environment = "production"
    /\ environments = {"production"}
    /\ monitor_envs[<<1, "production">>].last_checkin = 1
    /\ monitor_envs[<<2, "production">>].last_checkin = 1

\* C26: the transaction of a check-in leaves a Monitor row whose stored
\* status is DISABLED, PENDING_DELETION or DELETION_IN_PROGRESS with that
\* status, also when the status was written after the request loaded the
\* monitor
C26_StickyUnderRace ==
    [][\A w \in Workers :
         (TxnStep(w) /\ monitors[req[w].monitor].status \in {"DISABLED"} \cup Deleting) =>
            monitors'[req[w].monitor].status = monitors[req[w].monitor].status
      ]_vars

\* C27: for every MonitorEnvironment row that exists, the last_checkin of
\* its Monitor is not older than the row's own: both are NULL, or both are
\* set and the monitor's is the same or later
C27_MonitorNotOlder ==
    \A k \in EnvKeys :
        monitor_envs[k] # NoRow =>
            LET monitor == monitors[k[1]]
                env == monitor_envs[k]
            IN  \/ monitor.last_checkin = NULL /\ env.last_checkin = NULL
                \/ /\ monitor.last_checkin # NULL
                   /\ env.last_checkin # NULL
                   /\ monitor.last_checkin >= env.last_checkin

\* C27 witness: a monitor has a check-in at T = 1 in one environment and a
\* later one at T = 2 in another: the first environment's last_checkin is
\* older than the monitor's
C27_Witness ==
    /\ Len(checkins) = 2
    /\ checkins[1].monitor = 1 /\ checkins[2].monitor = 1
    /\ checkins[1].environment = "staging" /\ checkins[1].date_added = 1
    /\ checkins[2].environment = "production" /\ checkins[2].date_added = 2
    /\ monitors[1].last_checkin = 2
    /\ monitor_envs[<<1, "staging">>].last_checkin = 1
    /\ monitor_envs[<<1, "production">>].last_checkin = 2

\* C28: the transaction of a check-in for monitor M in environment E leaves
\* the Monitor row of every other monitor, the MonitorEnvironment row of
\* every pair other than (M, E) and every check-in row recorded before as
\* they are
C28_Frame ==
    [][\A w \in Workers :
         TxnStep(w) =>
            LET M == req[w].monitor
                E == Recorded.environment
            IN  /\ Recorded.monitor = M
                /\ \A o \in Monitors \ {M} : monitors'[o] = monitors[o]
                /\ \A k \in EnvKeys \ {<<M, E>>} : monitor_envs'[k] = monitor_envs[k]
                /\ SubSeq(checkins', 1, Len(checkins)) = checkins
      ]_vars

\* C28 witness: after a check-in in "staging" at T = 1 a check-in of the
\* same monitor in "production" at T = 2 was applied, and the "staging" row
\* is as the first check-in left it while the other monitor has no check-in
C28_Witness ==
    /\ response.code = 201
    /\ Len(checkins) = 2
    /\ checkins[1] = [id |-> 1, monitor |-> 1, environment |-> "staging",
                      status |-> "ERROR", date_added |-> 1]
    /\ checkins[2] = [id |-> 2, monitor |-> 1, environment |-> "production",
                      status |-> "OK", date_added |-> 2]
    /\ monitor_envs[<<1, "staging">>] = [status |-> "ERROR", last_checkin |-> 1, next_checkin |-> 2]
    /\ monitor_envs[<<1, "production">>] = [status |-> "OK", last_checkin |-> 2, next_checkin |-> 3]
    /\ monitors[2] = InitialMonitor

\* C29: a request answered 404 or 400 leaves every counter of the limiter as
\* it is, also when the quota of its monitor is used up (it is not answered
\* 429); a counter grows only in a step that admits a request or answers 429,
\* by one, and it is the counter of that request's monitor; a request for a
\* monitor that is being deleted is neither admitted nor answered 429
C29_AdmissionOrder ==
    [][/\ response'.code \in {400, 404} => ratelimit' = ratelimit
       /\ \A m \in Monitors :
            LET key == <<"monitor-checkins", m>>
            IN  /\ ratelimit'[key] > ratelimit[key] =>
                     /\ ratelimit'[key] = ratelimit[key] + 1
                     /\ \/ response'.code = 429 /\ response'.monitor = m
                        \/ \E w \in Workers : AdmitStep(w) /\ req'[w].monitor = m
                     /\ monitors[m].status \notin Deleting
                /\ monitors[m].status \in Deleting => ratelimit'[key] <= ratelimit[key]
      ]_vars

\* C29 witness: the quota of a monitor was used up, a request for it was
\* answered 429, the monitor was then marked for deletion and the next
\* request for it was answered 404 without being counted
C29_Witness ==
    /\ response.code = 404
    /\ Cardinality(CheckInsOf(response.monitor)) = 5
    /\ ratelimit[<<"monitor-checkins", response.monitor>>] = 6
    /\ monitors[response.monitor].status \in Deleting


\* ---------------------------------------------------------------------
\* C30

\* a run of the task for organization o
RunStep(o) == task'.runs = task.runs + 1 /\ task'.organization_id = o

\* the run for o logged something
LoggedStep(o) ==
    /\ Len(logged') = Len(logged) + 1
    /\ logged'[Len(logged')].organization_id = o

\* C30: a run of enable_for_organization changes no organization other
\* than its own and never raises; it sets its organization's
\* codecov_access to true only if the organization exists, has a valid
\* Codecov integration and had the flag unset, and it does so whenever
\* these hold and the run logs no error; it never clears a flag; a run
\* for an organization whose flag is set, or that has no integration,
\* changes nothing (so a second run changes nothing); a run for a missing
\* organization logs "Organization does not exist.", a run that logs
\* leaves every organization unchanged, and nothing is logged otherwise.
C30_EnableForOrganization ==
    [][\A o \in OrganizationIds :
          RunStep(o) =>
            LET before == organizations[o]
                after == organizations'[o]
                eligible == /\ before # NoOrganization
                            /\ o \in integrations
                            /\ before.codecov_access = FALSE
            IN  /\ task'.raised = FALSE
                /\ task'.saved = (after # before)
                /\ \A p \in OrganizationIds \ {o} : organizations'[p] = organizations[p]
                /\ integrations' = integrations
                /\ (after # before) => (eligible /\ after.codecov_access = TRUE)
                /\ (eligible /\ ~LoggedStep(o)) => after.codecov_access = TRUE
                /\ (before.codecov_access = TRUE) => (after.codecov_access = TRUE)
                /\ (~eligible) => (organizations' = organizations)
                /\ (after.codecov_access = TRUE) => \A q \in BOOLEAN :
                       codecov_access_after(after, q) = TRUE
                /\ (before = NoOrganization) =>
                       /\ LoggedStep(o)
                       /\ logged'[Len(logged')].message = DoesNotExistMessage
                /\ LoggedStep(o) => organizations' = organizations
                /\ (~LoggedStep(o)) => logged' = logged
                /\ (LoggedStep(o) /\ before # NoOrganization) =>
                       logged'[Len(logged')].message = ErrorMessage]_vars

\* after a run that logged, a run saved an organization that has the
\* integration, and its flag is set
C30_Witness ==
    /\ task.saved
    /\ task.organization_id \in integrations
    /\ organizations[task.organization_id].codecov_access = TRUE
    /\ Len(logged) >= 1
====
